---- MODULE Spec2Model ----
(***************************************************************************)
(* State-machine model of the Dashboard component (page/Dashboard.tsx):    *)
(* the session gate in useEffect, fetchUserUrls, handleSubmit,             *)
(* handleInputChange, handleLogout and closeModal.                         *)
(* Every await of the source is a separate step, so that responses,        *)
(* user events and logout interleave as they can in the browser.           *)
(***************************************************************************)
EXTENDS Integers, Sequences, FiniteSets, TLC

VARIABLES
    storage,      \* localStorage: urltoken, userEmail, isAuthenticated
    location,     \* current route, changed by navigate(...)
    gate,         \* the mount effect: "pending" until it has run, then its outcome
    urls,         \* useState urls
    urlsLoading,  \* useState urlsLoading
    formData,     \* useState formData
    loading,      \* useState loading
    userEmail,    \* useState userEmail
    showModal,    \* useState showModal
    createdUrl,   \* useState createdUrl
    fetches,      \* fetchUserUrls calls suspended at an await
    submit,       \* the handleSubmit call suspended at an await, if any
    requests,     \* requests issued with fetch(...), in order
    alerts,       \* number of alert(...) calls so far
    lastAlert,    \* the message of the last of them
    completed,    \* ids of the fetchUserUrls calls that have returned, in order
    lastOutcome,  \* how the last of them ended
    lastData,     \* the data the last of them parsed (JSON null if it parsed none)
    lastReply,    \* the data parsed from the response to the last create request
    nextId,       \* number of fetchUserUrls calls started so far
    submits,      \* number of handleSubmit calls so far
    rendered,     \* the last call of getValidityStatus: its inputs and result
    server,       \* the remote side: number of links it holds for the user
    lastServed    \* of the last call that stored a body: what server was when it
                  \* was answered (0 if the last call stored none)

vars == <<storage, location, gate, urls, urlsLoading, formData, loading,
          userEmail, showModal, createdUrl, fetches, submit, requests,
          alerts, lastAlert, completed, lastOutcome, lastData, lastReply, nextId,
          submits, rendered, server, lastServed>>

-----------------------------------------------------------------------------
(* Bounds *)

\* submissions of the form in one run of the model
MaxSubmits == 1

-----------------------------------------------------------------------------
(* JSON values as the code inspects them *)

\* what localStorage.getItem returns for a key that is not stored
NULL == "<null>"

JNull == [t |-> "null"]
JNum(n) == [t |-> "number", v |-> n]
JStr(s) == [t |-> "string", v |-> s]
JArr(es) == [t |-> "array", elems |-> es]
JObj(en) == [t |-> "object", entries |-> en]

\* a ShortenedUrl as the server sends it: an object with an _id field
Link(id) == JObj(<<[k |-> "_id", v |-> JStr(id)]>>)

\* JavaScript truthiness of a JSON value
Truthy(d) ==
    CASE d.t = "null" -> FALSE
      [] d.t = "number" -> d.v # 0
      [] d.t = "string" -> d.v # ""
      [] d.t = "boolean" -> d.v
      [] OTHER -> TRUE

\* Array.isArray(d)
IsArray(d) == d.t = "array"

\* typeof d === 'object' (true of null, arrays and plain objects)
TypeofObject(d) == d.t \in {"null", "array", "object"}

\* key in d, for a value that typeof reports as an object
HasKey(d, key) == d.t = "object" /\ \E i \in DOMAIN d.entries : d.entries[i].k = key

\* d.key: the property's value and whether the read is defined at all
\* (undefined for a missing property; reading a property of null throws)
HasProp(d, key) == HasKey(d, key)
Prop(d, key) == d.entries[CHOOSE i \in DOMAIN d.entries : d.entries[i].k = key].v

\* Object.values(d) of a plain object
ObjectValues(d) == [i \in DOMAIN d.entries |-> d.entries[i].v]

\* the filter of Object.values in fetchUserUrls:
\* typeof item === 'object' && item !== null && '_id' in item
IsLinkLike(item) == TypeofObject(item) /\ item # JNull /\ HasKey(item, "_id")

\* a plausible slip: the filter forgets the '_id' test
ExtractUrlsNoMapping(data) ==
    IF Truthy(data) /\ HasProp(data, "urls") /\ Truthy(Prop(data, "urls"))
          /\ IsArray(Prop(data, "urls"))
    THEN Prop(data, "urls").elems
    ELSE IF IsArray(data)
    THEN data.elems
    ELSE <<>>

ExtractUrlsKeepAll(data) ==
    IF Truthy(data) /\ HasProp(data, "urls") /\ Truthy(Prop(data, "urls"))
          /\ IsArray(Prop(data, "urls"))
    THEN Prop(data, "urls").elems
    ELSE IF IsArray(data)
    THEN data.elems
    ELSE IF Truthy(data) /\ TypeofObject(data)
    THEN SelectSeq(ObjectValues(data),
                   LAMBDA item : TypeofObject(item) /\ item # JNull)
    ELSE <<>>

\* the "Extract URLs from the response" block of fetchUserUrls: urlsArray
ExtractUrls(data) ==
    IF Truthy(data) /\ HasProp(data, "urls") /\ Truthy(Prop(data, "urls"))
          /\ IsArray(Prop(data, "urls"))
    THEN Prop(data, "urls").elems
    ELSE IF IsArray(data)
    THEN data.elems
    ELSE IF Truthy(data) /\ TypeofObject(data)
    THEN SelectSeq(ObjectValues(data), IsLinkLike)
    ELSE <<>>

-----------------------------------------------------------------------------
(* What the remote API may answer *)

\* sequences a body may carry: links and, because the shape is not
\* guaranteed, other values too
Arrays ==
    {JArr(<<>>), JArr(<<Link("a")>>), JArr(<<Link("a"), Link("b")>>),
     JArr(<<JNum(1), Link("b")>>), JArr(<<JNull>>)}

\* values of a body's fields
Leaves == {JNull, JNum(0), JNum(1), JStr(""), JStr("x"), JObj(<<>>), Link("a"), Link("b"),
           JObj(<<[k |-> "_id", v |-> JNull]>>),
           JObj(<<[k |-> "id", v |-> JStr("a")]>>)}

\* every shape of body of a response to GET /api/url/myurls that the
\* extraction is checked on: scalars, bare sequences, objects with a urls
\* field (a sequence or not), and keyed mappings
AllBodies ==
    Leaves
    \cup Arrays
    \cup {JObj(<<[k |-> "urls", v |-> a]>>) : a \in Arrays}
    \cup {JObj(<<[k |-> "urls", v |-> l]>>) : l \in Leaves}
    \cup {JObj(<<[k |-> "urls", v |-> a], [k |-> "0", v |-> l]>>) :
             a \in Arrays, l \in {Link("b"), JStr("x")}}
    \cup {JObj(<<[k |-> "0", v |-> l], [k |-> "note", v |-> m]>>) :
             l \in Leaves \cup Arrays, m \in {JStr("x"), Link("b"), JNull}}
    \cup {JObj(<<[k |-> "0", v |-> Link("a")], [k |-> "1", v |-> Link("b")],
                 [k |-> "urls", v |-> l]>>) : l \in {JStr("x"), Link("a"), JNull}}

\* the bodies the remote answers with where the dashboard as a whole is
\* explored: one or two of each shape
Bodies ==
    {JNull,
     JArr(<<Link("a")>>),
     JObj(<<[k |-> "urls", v |-> JArr(<<Link("a"), Link("b")>>)]>>),
     JObj(<<[k |-> "urls", v |-> JStr("x")]>>),
     JObj(<<>>),
     JObj(<<[k |-> "0", v |-> Link("a")], [k |-> "note", v |-> JStr("x")]>>),
     JObj(<<[k |-> "0", v |-> JNull], [k |-> "note", v |-> Link("b")]>>)}

\* bodies of a response to POST /api/url/shorten: a CreationResult, an
\* error object with or without a message, or JSON null
CreationResult == JObj(<<[k |-> "message", v |-> JStr("created")],
                         [k |-> "shortUrl", v |-> JStr("s1")]>>)

PostBodies ==
    {CreationResult, JNull, JObj(<<>>),
     JObj(<<[k |-> "message", v |-> JStr("taken")]>>),
     JObj(<<[k |-> "message", v |-> JStr("")]>>)}

\* the links the remote side holds for the user when the dashboard opens
InitialLinks == 1

\* the i-th link of the user on the remote side
ServerLink(i) == Link(ToString(i))

\* the collection of a remote side that holds n links
ServerLinks(n) == [i \in 1..n |-> ServerLink(i)]

\* the bodies with which a remote side that holds n links answers
\* GET /api/url/myurls when it answers as documented: the collection in a
\* urls field, as a bare sequence (in either order), or as a keyed mapping
Encodings(n) ==
    {JObj(<<[k |-> "urls", v |-> JArr(ServerLinks(n))]>>),
     JArr(ServerLinks(n)),
     JArr([i \in 1..n |-> ServerLink(n + 1 - i)]),
     JObj([i \in 1..n |-> [k |-> ToString(i - 1), v |-> ServerLink(i)]])}

-----------------------------------------------------------------------------
(* Form input *)

\* text of the custom name field, as a sequence of characters
Names == {<<>>, <<" ">>, <<"a">>, <<" ", "a", " ">>}
OriginalUrls == {"", "https://example.com"}
ValidityPeriods == {"1day", "7days", "1month"}

\* the initial value of useState(formData), also the value of "Reset form"
DefaultForm == [originalUrl |-> "", customName |-> <<>>, validityPeriod |-> "7days"]

\* String.prototype.trim
RECURSIVE TrimLeft(_)
TrimLeft(s) == IF s # <<>> /\ Head(s) = " " THEN TrimLeft(Tail(s)) ELSE s
RECURSIVE TrimRight(_)
TrimRight(s) ==
    IF s # <<>> /\ s[Len(s)] = " " THEN TrimRight(SubSeq(s, 1, Len(s) - 1)) ELSE s
Trim(s) == TrimRight(TrimLeft(s))

\* a plausible slip: customName is always put in the body
RequestBodyAlwaysName(form) ==
    [originalUrl |-> form.originalUrl, validityPeriod |-> form.validityPeriod,
     customName |-> form.customName]

\* requestBody of handleSubmit: customName is added only when its trimmed
\* value is non-empty
RequestBody(form) ==
    IF Trim(form.customName) # <<>>
    THEN [originalUrl |-> form.originalUrl, validityPeriod |-> form.validityPeriod,
          customName |-> form.customName]
    ELSE [originalUrl |-> form.originalUrl, validityPeriod |-> form.validityPeriod]

-----------------------------------------------------------------------------
(* getValidityStatus *)

\* 1000 * 60 * 60 * 24, the milliseconds of a day
DayMs == 1000 * 60 * 60 * 24

\* Math.ceil(a / b) for b > 0
Ceil(a, b) == -((-a) \div b)

\* a plausible slip: >= in place of >, so a link is expired at the very
\* instant of its expiry
GetValidityStatusAtExpiry(expiry, now) ==
    IF now >= expiry
    THEN [status |-> "Expired", color |-> "text-red-500"]
    ELSE LET daysLeft == Ceil(expiry - now, DayMs)
         IN  [status |-> ToString(daysLeft) \o " day"
                            \o (IF daysLeft # 1 THEN "s" ELSE "") \o " left",
              color |-> IF daysLeft <= 2 THEN "text-yellow-500" ELSE "text-green-500"]

\* getValidityStatus(expiryDate), with the two dates as milliseconds:
\* expiry.getTime() and now.getTime()
GetValidityStatus(expiry, now) ==
    IF now > expiry
    THEN [status |-> "Expired", color |-> "text-red-500"]
    ELSE LET daysLeft == Ceil(expiry - now, DayMs)
         IN  [status |-> ToString(daysLeft) \o " day"
                            \o (IF daysLeft # 1 THEN "s" ELSE "") \o " left",
              color |-> IF daysLeft <= 2 THEN "text-yellow-500" ELSE "text-green-500"]

\* days of the instants getValidityStatus is evaluated on
MaxDays == 3

\* instants in milliseconds: the day boundaries up to MaxDays, one
\* millisecond before and after each, and the middle of each day
Times ==
    {t \in {d * DayMs + o : d \in 0..MaxDays, o \in {-1, 0, 1, DayMs \div 2}} : t >= 0}

\* getValidityStatus has not been called
NotRendered == [called |-> FALSE]

-----------------------------------------------------------------------------
(* Initial state *)

\* contents of localStorage when the dashboard is opened
StoredSessions ==
    {[urltoken |-> NULL, userEmail |-> NULL, isAuthenticated |-> NULL],
     [urltoken |-> "", userEmail |-> NULL, isAuthenticated |-> "true"],
     [urltoken |-> "tokA", userEmail |-> "u@x", isAuthenticated |-> "true"]}

\* no handleSubmit call is suspended
Idle == [pc |-> "idle"]

Init ==
    /\ storage \in StoredSessions
    /\ location = "/dashboard"
    /\ gate = "pending"
    /\ urls = <<>>
    /\ urlsLoading = TRUE
    /\ formData = DefaultForm
    /\ loading = FALSE
    /\ userEmail = ""
    /\ showModal = FALSE
    /\ createdUrl = JNull
    /\ fetches = {}
    /\ submit = Idle
    /\ requests = <<>>
    /\ alerts = 0
    /\ lastAlert = ""
    /\ completed = <<>>
    /\ lastOutcome = "none"
    /\ lastData = JNull
    /\ lastReply = JNull
    /\ nextId = 0
    /\ submits = 0
    /\ rendered = NotRendered
    /\ server = InitialLinks
    /\ lastServed = 0

\* !token: localStorage.getItem gave null or the empty string
NoToken(token) == token = NULL \/ token = ""

-----------------------------------------------------------------------------
(* fetchUserUrls *)

\* fetchUserUrls(token) up to its first await: setUrlsLoading(true) and the
\* GET request
FetchUserUrlsCall(token) ==
    /\ urlsLoading' = TRUE
    /\ requests' = Append(requests, [method |-> "GET", token |-> token,
                                     persisted |-> storage.urltoken])
    /\ fetches' = fetches \cup {[id |-> nextId + 1, token |-> token, pc |-> "fetch"]}
    /\ nextId' = nextId + 1

\* a plausible slip: the new links are added to the ones already held
SetUrlsMerge(prev, value) == prev \o value

\* setUrls(value): the state is replaced by the value passed
SetUrls(prev, value) == value

\* a plausible slip: a failed refresh takes the creation result back
FetchCatchUnwinds(f, cause) ==
    /\ urls' = SetUrls(urls, <<>>)
    /\ urlsLoading' = FALSE
    /\ fetches' = fetches \ {f}
    /\ completed' = Append(completed, f.id)
    /\ lastOutcome' = cause
    /\ lastData' = JNull
    /\ createdUrl' = JNull
    /\ showModal' = FALSE
    /\ lastServed' = 0
    /\ UNCHANGED <<storage, location, gate, formData, loading, userEmail,
                   submit, requests, alerts, lastAlert, lastReply, nextId, submits,
                   rendered, server>>

\* a plausible slip: the catch block logs the error and keeps the links
FetchCatchKeepsUrls(f, cause) ==
    /\ urls' = urls
    /\ urlsLoading' = FALSE
    /\ fetches' = fetches \ {f}
    /\ completed' = Append(completed, f.id)
    /\ lastOutcome' = cause
    /\ lastData' = JNull
    /\ lastServed' = 0
    /\ UNCHANGED <<storage, location, gate, formData, loading, userEmail,
                   showModal, createdUrl, submit, requests, alerts, lastAlert, lastReply,
                   nextId, submits,
                   rendered, server>>

\* a plausible slip: the flag is cleared on the success path only, not in
\* a finally block
FetchCatchNoFinally(f, cause) ==
    /\ urls' = SetUrls(urls, <<>>)
    /\ urlsLoading' = urlsLoading
    /\ fetches' = fetches \ {f}
    /\ completed' = Append(completed, f.id)
    /\ lastOutcome' = cause
    /\ lastData' = JNull
    /\ lastServed' = 0
    /\ UNCHANGED <<storage, location, gate, formData, loading, userEmail,
                   showModal, createdUrl, submit, requests, alerts, lastAlert, lastReply,
                   nextId, submits,
                   rendered, server>>

\* the catch and finally blocks of fetchUserUrls, and its return
FetchCatch(f, cause) ==
    /\ urls' = SetUrls(urls, <<>>)
    /\ urlsLoading' = FALSE
    /\ fetches' = fetches \ {f}
    /\ completed' = Append(completed, f.id)
    /\ lastOutcome' = cause
    /\ lastData' = JNull
    /\ lastServed' = 0
    /\ UNCHANGED <<storage, location, gate, formData, loading, userEmail,
                   showModal, createdUrl, submit, requests, alerts, lastAlert, lastReply,
                   nextId, submits,
                   rendered, server>>

\* await fetch(...) rejects: transport failure
FetchRejected(f) ==
    /\ f \in fetches /\ f.pc = "fetch"
    /\ FetchCatch(f, "rejected")

\* await fetch(...) resolves with a response whose ok is false
FetchNotOk(f) ==
    /\ f \in fetches /\ f.pc = "fetch"
    /\ FetchCatch(f, "notok")

\* await fetch(...) resolves with a response whose ok is true; the call is
\* suspended again at await response.json().  The remote side has answered
\* from the links it holds at this moment.
FetchOk(f) ==
    /\ f \in fetches /\ f.pc = "fetch"
    /\ fetches' = (fetches \ {f})
                   \cup {[id |-> f.id, token |-> f.token, pc |-> "json", served |-> server]}
    /\ UNCHANGED <<storage, location, gate, urls, urlsLoading, formData, loading,
                   userEmail, showModal, createdUrl, submit, requests, alerts, lastAlert,
                   completed, lastOutcome, lastData, lastReply, nextId, submits,
                   rendered, server, lastServed>>

\* await response.json() rejects: the body is not JSON
FetchJsonRejected(f) ==
    /\ f \in fetches /\ f.pc = "json"
    /\ FetchCatch(f, "unparsable")

\* await response.json() resolves with data: the collection is extracted
\* and stored, then the finally block runs
FetchJsonResolved(f, data) ==
    /\ f \in fetches /\ f.pc = "json"
    /\ urls' = SetUrls(urls, ExtractUrls(data))
    /\ urlsLoading' = FALSE
    /\ fetches' = fetches \ {f}
    /\ completed' = Append(completed, f.id)
    /\ lastOutcome' = "stored"
    /\ lastData' = data
    /\ lastServed' = f.served
    /\ UNCHANGED <<storage, location, gate, formData, loading, userEmail,
                   showModal, createdUrl, submit, requests, alerts, lastAlert, lastReply,
                   nextId, submits,
                   rendered, server>>

-----------------------------------------------------------------------------
(* The mount effect *)

\* a plausible slip: no return after navigate("/"), so the refresh is
\* started without a token
MountEffectNoReturn ==
    /\ gate = "pending"
    /\ IF NoToken(storage.urltoken)
       THEN /\ gate' = "unauthenticated"
            /\ location' = "/"
            /\ userEmail' = ""
            /\ FetchUserUrlsCall(storage.urltoken)
       ELSE /\ gate' = "authenticated"
            /\ userEmail' = (IF NoToken(storage.userEmail) THEN "" ELSE storage.userEmail)
            /\ FetchUserUrlsCall(storage.urltoken)
            /\ UNCHANGED location
    /\ UNCHANGED <<storage, urls, formData, loading, showModal, createdUrl, submit,
                   alerts, lastAlert, completed, lastOutcome, lastData, lastReply, submits,
                   rendered, server, lastServed>>

\* useEffect(..., [navigate]): the session gate and the initial refresh
MountEffect ==
    /\ gate = "pending"
    /\ IF NoToken(storage.urltoken)
       THEN /\ gate' = "unauthenticated"
            /\ location' = "/"
            /\ UNCHANGED <<userEmail, urlsLoading, requests, fetches, nextId>>
       ELSE /\ gate' = "authenticated"
            /\ userEmail' = (IF NoToken(storage.userEmail) THEN "" ELSE storage.userEmail)
            /\ FetchUserUrlsCall(storage.urltoken)
            /\ UNCHANGED location
    /\ UNCHANGED <<storage, urls, formData, loading, showModal, createdUrl, submit,
                   alerts, lastAlert, completed, lastOutcome, lastData, lastReply, submits,
                   rendered, server, lastServed>>

-----------------------------------------------------------------------------
(* handleSubmit *)

\* messages of the errors the runtime itself throws
FetchFailedMessage == "Failed to fetch"
JsonSyntaxMessage == "Unexpected token in JSON"
NullPropertyMessage == "Cannot read properties of null"
FallbackMessage == "Failed to create short URL"

\* a plausible slip: the flag is cleared on the success path only
SubmitCatchKeepsLoading(message) ==
    /\ alerts' = alerts + 1
    /\ lastAlert' = message
    /\ loading' = loading
    /\ submit' = Idle
    /\ UNCHANGED <<storage, location, gate, urls, urlsLoading, formData, userEmail,
                   showModal, createdUrl, fetches, requests, completed, lastOutcome,
                   lastData, nextId, submits,
                   rendered, server, lastServed>>

\* a plausible slip: the form is reset on the failure path too
SubmitCatchResetsForm(message) ==
    /\ alerts' = alerts + 1
    /\ lastAlert' = message
    /\ loading' = FALSE
    /\ submit' = Idle
    /\ formData' = DefaultForm
    /\ UNCHANGED <<storage, location, gate, urls, urlsLoading, userEmail,
                   showModal, createdUrl, fetches, requests, completed, lastOutcome,
                   lastData, nextId, submits,
                   rendered, server, lastServed>>

\* the catch and finally blocks of handleSubmit, and its return
SubmitCatch(message) ==
    /\ alerts' = alerts + 1
    /\ lastAlert' = message
    /\ loading' = FALSE
    /\ submit' = Idle
    /\ UNCHANGED <<storage, location, gate, urls, urlsLoading, formData, userEmail,
                   showModal, createdUrl, fetches, requests, completed, lastOutcome, lastData, nextId, submits,
                   rendered, server, lastServed>>

\* a plausible slip: the token is not checked before the create request
HandleSubmitNoGate ==
    /\ ~loading
    /\ formData.originalUrl # ""
    /\ submits < MaxSubmits
    /\ submits' = submits + 1
    /\ loading' = TRUE
    /\ submit' = [pc |-> "fetch", token |-> storage.urltoken,
                  body |-> RequestBody(formData)]
    /\ requests' = Append(requests, [method |-> "POST", token |-> storage.urltoken,
                                     persisted |-> storage.urltoken])
    /\ lastReply' = JNull
    /\ UNCHANGED <<storage, location, gate, urls, urlsLoading, formData, userEmail,
                   showModal, createdUrl, fetches, alerts, lastAlert, completed,
                   lastOutcome, lastData, nextId,
                   rendered, server, lastServed>>

\* the form's onSubmit, up to the first await.  The submit button is
\* disabled while loading and the originalUrl input is required.
HandleSubmit ==
    /\ ~loading
    /\ formData.originalUrl # ""
    /\ submits < MaxSubmits
    /\ submits' = submits + 1
    /\ IF NoToken(storage.urltoken)
       THEN /\ location' = "/"
            /\ loading' = FALSE
            /\ UNCHANGED <<submit, requests, lastReply>>
       ELSE /\ loading' = TRUE
            /\ submit' = [pc |-> "fetch", token |-> storage.urltoken,
                          body |-> RequestBody(formData)]
            /\ requests' = Append(requests, [method |-> "POST", token |-> storage.urltoken,
                                             persisted |-> storage.urltoken])
            /\ lastReply' = JNull
            /\ UNCHANGED location
    /\ UNCHANGED <<storage, gate, urls, urlsLoading, formData, userEmail, showModal,
                   createdUrl, fetches, alerts, lastAlert, completed, lastOutcome,
                   lastData, nextId,
                   rendered, server, lastServed>>

\* await fetch(...) of the create request rejects: transport failure
SubmitRejected ==
    /\ submit.pc = "fetch"
    /\ SubmitCatch(FetchFailedMessage)
    /\ UNCHANGED lastReply

\* await fetch(...) resolves; the call is suspended again at
\* await response.json(), whatever the status.  A response that is ok means
\* the remote side has created the link.
SubmitResponded(ok) ==
    /\ submit.pc = "fetch"
    /\ submit' = [pc |-> "json", token |-> submit.token, ok |-> ok]
    /\ server' = (IF ok THEN server + 1 ELSE server)
    /\ UNCHANGED <<storage, location, gate, urls, urlsLoading, formData, loading,
                   userEmail, showModal, createdUrl, fetches, requests, alerts, lastAlert,
                   completed, lastOutcome, lastData, lastReply, nextId, submits,
                   rendered, lastServed>>

\* await response.json() rejects: the body is not JSON
SubmitJsonRejected ==
    /\ submit.pc = "json"
    /\ SubmitCatch(JsonSyntaxMessage)
    /\ UNCHANGED lastReply

\* data.message || "Failed to create short URL", for data that is not null
ErrorMessage(data) ==
    IF HasProp(data, "message") /\ Truthy(Prop(data, "message"))
    THEN Prop(data, "message").v
    ELSE FallbackMessage

\* await response.json() resolves with data and the response is not ok
SubmitFailed(data) ==
    /\ submit.pc = "json" /\ ~submit.ok
    /\ lastReply' = data
    /\ IF data = JNull
       THEN SubmitCatch(NullPropertyMessage)
       ELSE SubmitCatch(ErrorMessage(data))

\* a plausible slip: the form is not reset after a success
SubmitSucceededNoReset(data) ==
    /\ submit.pc = "json" /\ submit.ok
    /\ lastReply' = data
    /\ createdUrl' = data
    /\ showModal' = TRUE
    /\ formData' = formData
    /\ FetchUserUrlsCall(submit.token)
    /\ loading' = FALSE
    /\ submit' = Idle
    /\ UNCHANGED <<storage, location, gate, urls, userEmail, alerts, lastAlert,
                   completed, lastOutcome, lastData, submits,
                   rendered, server, lastServed>>

\* await response.json() resolves with data and the response is ok: the
\* modal, the form reset, the refresh (not awaited) and the finally block
SubmitSucceeded(data) ==
    /\ submit.pc = "json" /\ submit.ok
    /\ lastReply' = data
    /\ createdUrl' = data
    /\ showModal' = TRUE
    /\ formData' = DefaultForm
    /\ FetchUserUrlsCall(submit.token)
    /\ loading' = FALSE
    /\ submit' = Idle
    /\ UNCHANGED <<storage, location, gate, urls, userEmail, alerts, lastAlert, completed, lastOutcome, lastData,
                   submits,
                   rendered, server, lastServed>>

-----------------------------------------------------------------------------
(* Other handlers *)

\* onChange of the two inputs and the select
HandleInputChange(name, value) ==
    /\ formData' = [formData EXCEPT ![name] = value]
    /\ UNCHANGED <<storage, location, gate, urls, urlsLoading, loading, userEmail,
                   showModal, createdUrl, fetches, submit, requests, alerts, lastAlert,
                   completed, lastOutcome, lastData, lastReply, nextId, submits,
                   rendered, server, lastServed>>

\* a plausible slip: only the token is removed
HandleLogoutTokenOnly ==
    /\ storage' = [storage EXCEPT !.urltoken = NULL]
    /\ location' = "/"
    /\ UNCHANGED <<gate, urls, urlsLoading, formData, loading, userEmail, showModal,
                   createdUrl, fetches, submit, requests, alerts, lastAlert, completed,
                   lastOutcome, lastData, lastReply, nextId, submits,
                   rendered, server, lastServed>>

HandleLogout ==
    /\ storage' = [urltoken |-> NULL, userEmail |-> NULL, isAuthenticated |-> NULL]
    /\ location' = "/"
    /\ UNCHANGED <<gate, urls, urlsLoading, formData, loading, userEmail, showModal,
                   createdUrl, fetches, submit, requests, alerts, lastAlert, completed, lastOutcome, lastData, lastReply, nextId,
                   submits,
                   rendered, server, lastServed>>

\* the modal is rendered, with its Close button, when showModal && createdUrl
ModalVisible == showModal /\ Truthy(createdUrl)

CloseModal ==
    /\ ModalVisible
    /\ showModal' = FALSE
    /\ createdUrl' = JNull
    /\ UNCHANGED <<storage, location, gate, urls, urlsLoading, formData, loading,
                   userEmail, fetches, submit, requests, alerts, lastAlert, completed, lastOutcome, lastData, lastReply, nextId,
                   submits,
                   rendered, server, lastServed>>

-----------------------------------------------------------------------------
(* Specification *)

\* the handlers run once the component has rendered and its effect has run
Mounted == gate # "pending"

Next ==
    \/ MountEffect
    \/ \E f \in fetches : FetchRejected(f)
    \/ \E f \in fetches : FetchNotOk(f)
    \/ \E f \in fetches : FetchOk(f)
    \/ \E f \in fetches : FetchJsonRejected(f)
    \/ \E f \in fetches, data \in Bodies : FetchJsonResolved(f, data)
    \/ Mounted /\ HandleSubmit
    \/ SubmitRejected
    \/ \E ok \in BOOLEAN : SubmitResponded(ok)
    \/ SubmitJsonRejected
    \/ \E data \in PostBodies : SubmitFailed(data)
    \/ \E data \in PostBodies : SubmitSucceeded(data)
    \/ Mounted /\ \E value \in OriginalUrls : HandleInputChange("originalUrl", value)
    \/ Mounted /\ \E value \in Names : HandleInputChange("customName", value)
    \/ Mounted /\ \E value \in ValidityPeriods : HandleInputChange("validityPeriod", value)
    \/ Mounted /\ HandleLogout
    \/ Mounted /\ CloseModal

Spec == Init /\ [][Next]_vars

\* the refresh alone, answered with every body of AllBodies: the
\* specification under which the extraction is compared with its reference
ExtractNext ==
    \/ MountEffect
    \/ \E f \in fetches : FetchRejected(f)
    \/ \E f \in fetches : FetchNotOk(f)
    \/ \E f \in fetches : FetchOk(f)
    \/ \E f \in fetches : FetchJsonRejected(f)
    \/ \E f \in fetches, data \in AllBodies : FetchJsonResolved(f, data)
    \/ Mounted /\ HandleLogout

ExtractSpec == Init /\ [][ExtractNext]_vars

\* the list renders a link: getValidityStatus(url.expiryDate) at the
\* current time
RenderLink(expiry, now) ==
    /\ rendered' = [called |-> TRUE, expiry |-> expiry, now |-> now,
                    result |-> GetValidityStatus(expiry, now)]
    /\ UNCHANGED <<storage, location, gate, urls, urlsLoading, formData, loading,
                   userEmail, showModal, createdUrl, fetches, submit, requests, alerts,
                   lastAlert, completed, lastOutcome, lastData, lastReply, nextId,
                   submits, server, lastServed>>

\* getValidityStatus alone, on every pair of instants of Times
ClassifyNext == \E expiry \in Times, now \in Times : RenderLink(expiry, now)

ClassifySpec == Init /\ [][ClassifyNext]_vars

\* the dashboard in front of a remote side that answers every GET with its
\* collection and with no failure, and a user who stays logged in
ServerNext ==
    \/ MountEffect
    \/ \E f \in fetches : FetchOk(f)
    \/ \E f \in {g \in fetches : g.pc = "json"} :
           \E data \in Encodings(f.served) : FetchJsonResolved(f, data)
    \/ Mounted /\ HandleSubmit
    \/ \E ok \in BOOLEAN : SubmitResponded(ok)
    \/ \E data \in PostBodies : SubmitFailed(data)
    \/ SubmitSucceeded(CreationResult)
    \/ Mounted /\ \E value \in OriginalUrls : HandleInputChange("originalUrl", value)
    \/ Mounted /\ \E value \in Names : HandleInputChange("customName", value)
    \/ Mounted /\ CloseModal

ServerSpec == Init /\ [][ServerNext]_vars

\* the network settles every request: the awaited fetch(...) and
\* response.json() of call i resolve or reject
FetchSettles(i) ==
    \E f \in fetches :
        /\ f.id = i
        /\ \/ FetchRejected(f)
           \/ FetchNotOk(f)
           \/ FetchOk(f)
           \/ FetchJsonRejected(f)
           \/ \E data \in Bodies : FetchJsonResolved(f, data)

FairSpec == Spec /\ \A i \in 1..(MaxSubmits + 1) : WF_vars(FetchSettles(i))

-----------------------------------------------------------------------------
(* Properties *)

FailureOutcomes == {"rejected", "notok", "unparsable"}

\* a fetchUserUrls call returns in this step
RefreshCompletes == Len(completed') = Len(completed) + 1

\* handleLogout has run: the gate found a token and the token is gone
LoggedOut == gate = "authenticated" /\ storage.urltoken = NULL

\* C1: a dashboard activated without a persisted token navigates to the
\* entry point, never issues a request and keeps its collection empty.
C1_NoTokenNoRequests ==
    gate = "unauthenticated" =>
        /\ location = "/"
        /\ requests = <<>>
        /\ fetches = {} /\ submit = Idle
        /\ urls = <<>>

\* the empty string was stored as token, and the user has filled the form
C1_Witness ==
    /\ gate = "unauthenticated" /\ storage.urltoken = ""
    /\ formData.originalUrl # "" /\ formData.validityPeriod = "1day"

\* C2: every request carries a non-empty token that is the token persisted
\* at the moment the request is issued.
C2_RequestsCarryPersistedToken ==
    \A i \in DOMAIN requests :
        ~NoToken(requests[i].token) /\ requests[i].token = requests[i].persisted

\* C3: once logout has cleared the session, no completing refresh changes
\* the link collection.
C3_StaleRefreshDiscarded == [][LoggedOut => urls' = urls]_vars

\* C4: urlsLoading is true whenever a fetchUserUrls call has started and has
\* not completed.
C4_LoadingWhileRefreshing == fetches # {} => urlsLoading

\* C5: every started fetchUserUrls call completes once the network settles
\* its request, and urlsLoading is false right after it completes, on every
\* exit path.
C5_RefreshEndsNotLoading ==
    /\ \A i \in 1..(MaxSubmits + 1) :
          (\E f \in fetches : f.id = i) ~> (\E k \in DOMAIN completed : completed[k] = i)
    /\ [][RefreshCompletes => ~urlsLoading' /\ fetches' \subseteq fetches]_vars

\* the two calls have completed, the last of them on a failure path
C5_Witness ==
    /\ Len(completed) = 2 /\ fetches = {}
    /\ lastOutcome \in FailureOutcomes /\ ~urlsLoading

\* C6: a refresh that ends with a transport failure, a non-success status
\* or an unparsable body empties the collection, raises no alert and leaves
\* the submission and the navigation as they are.
C6_RefreshFailureIsSilent ==
    [][(RefreshCompletes /\ lastOutcome' \in FailureOutcomes) =>
          /\ urls' = <<>>
          /\ alerts' = alerts /\ lastAlert' = lastAlert
          /\ UNCHANGED <<submit, loading, createdUrl, showModal, formData, location, gate,
                   rendered, server>>
      ]_vars

\* the refresh started by a successful submit has failed, after the initial
\* one: the modal is still shown and no alert was raised
C6_Witness ==
    /\ completed = <<1, 2>> /\ lastOutcome \in FailureOutcomes
    /\ urls = <<>> /\ alerts = 0
    /\ ModalVisible /\ ~loading /\ submit = Idle

\* the normalization as the specification words it
IsSequence(v) == v.t = "array"
IsMapping(v) == v.t = "object"
Field(v, key) == {e \in {v.entries[i] : i \in DOMAIN v.entries} : e.k = key}
CarriesIdentifier(v) == IsMapping(v) /\ Field(v, "_id") # {}

RECURSIVE IdentifiedValues(_)
IdentifiedValues(entries) ==
    IF entries = <<>> THEN <<>>
    ELSE (IF CarriesIdentifier(Head(entries).v) THEN <<Head(entries).v>> ELSE <<>>)
         \o IdentifiedValues(Tail(entries))

ReferenceNormalize(body) ==
    CASE IsMapping(body) /\ (\E e \in Field(body, "urls") : IsSequence(e.v)) ->
             (CHOOSE e \in Field(body, "urls") : TRUE).v.elems
      [] IsSequence(body) -> body.elems
      [] IsMapping(body) -> IdentifiedValues(body.entries)
      [] OTHER -> <<>>

\* C7: the collection stored for a parsed body is the reference
\* normalization of that body, and parsing a body never takes the error path.
C7_ExtractMatchesReference ==
    lastOutcome = "stored" => urls = ReferenceNormalize(lastData)

\* a keyed mapping with one link and one note has been stored as that link
C7_Witness ==
    /\ lastOutcome = "stored"
    /\ lastData = JObj(<<[k |-> "0", v |-> Link("a")], [k |-> "note", v |-> JStr("x")]>>)
    /\ urls = <<Link("a")>>

\* C8: the collection is exactly the result of the refresh that completed
\* last, whatever the collection held before and whatever the order of issue.
C8_LastCompletedWins ==
    completed # <<>> =>
        urls = (IF lastOutcome = "stored" THEN ExtractUrls(lastData) ELSE <<>>)

\* the refresh issued by the submit completed first, the initial one last
C8_Witness ==
    /\ completed = <<2, 1>> /\ lastOutcome = "stored"
    /\ urls = <<Link("a")>>

\* the create request last issued
LastPost ==
    requests[CHOOSE i \in DOMAIN requests :
                /\ requests[i].method = "POST"
                /\ \A j \in DOMAIN requests : requests[j].method = "POST" => j <= i]

\* handleSubmit returns in this step without an alert
SubmitSucceeds == submit.pc # "idle" /\ submit' = Idle /\ alerts' = alerts

\* handleSubmit returns in this step with an alert
SubmitFails == submit.pc # "idle" /\ submit' = Idle /\ alerts' = alerts + 1

\* C9: a successful submit stores the result, shows the modal, resets the
\* form and issues exactly one GET, with the token of its create request.
C9_SuccessfulSubmit ==
    [][SubmitSucceeds =>
          /\ createdUrl' = lastReply' /\ showModal'
          /\ (IsMapping(lastReply') => ModalVisible')
          /\ formData' = DefaultForm
          /\ requests' = Append(requests, [method |-> "GET", token |-> LastPost.token,
                                           persisted |-> storage.urltoken])
          /\ Cardinality(fetches') = Cardinality(fetches) + 1
      ]_vars

\* after the initial GET, the POST and the one GET that follows it
C9_Witness ==
    /\ ModalVisible /\ createdUrl = CreationResult
    /\ formData = DefaultForm /\ submit = Idle
    /\ Len(requests) = 3 /\ requests[2].method = "POST"
    /\ requests[3].method = "GET" /\ requests[3].token = requests[2].token

\* C10: a submit that fails at the write leaves the form, the result, the
\* modal and the collection as they were and issues no refresh.
C10_FailedSubmitKeepsState ==
    [][SubmitFails =>
          UNCHANGED <<formData, createdUrl, showModal, urls, urlsLoading, requests, fetches>>
      ]_vars

\* the server refused the create request; the form still holds the input
C10_Witness ==
    /\ alerts = 1 /\ lastAlert = "taken" /\ submit = Idle
    /\ formData.originalUrl # "" /\ formData.customName = <<" ", "a", " ">>
    /\ Len(requests) = 2 /\ ~showModal

\* handleSubmit returns in this step with an alert, after a response that
\* is not ok
NonSuccessNotice == SubmitFails /\ submit.pc = "json" /\ ~submit.ok

\* the notice the specification asks for: the message of the body, or the
\* fallback when there is none (no body parsed, or no message in it)
ExpectedNotice(reply) ==
    IF IsMapping(reply) /\ Field(reply, "message") # {}
          /\ (CHOOSE e \in Field(reply, "message") : TRUE).v \notin {JNull, JStr("")}
    THEN (CHOOSE e \in Field(reply, "message") : TRUE).v.v
    ELSE FallbackMessage

\* C11: after a non-success response the alert shows the body's message if
\* it has a non-empty one, and the fallback otherwise, also when the body
\* is not usable JSON.
C11_NoticeIsMessageOrFallback ==
    [][NonSuccessNotice => lastAlert' = ExpectedNotice(lastReply')]_vars

\* the fetchUserUrls call that returns in this step was started by a submit
\* (the call of the mount effect has id 1)
SubmitRefreshCompletes == RefreshCompletes /\ completed'[Len(completed')] > 1

\* C12: when the refresh that follows a successful creation fails, the
\* result, the modal and the form stay as they are and no alert is raised.
C12_RefreshFailureKeepsCreation ==
    [][(SubmitRefreshCompletes /\ lastOutcome' \in FailureOutcomes) =>
          /\ createdUrl' = createdUrl /\ showModal' = showModal
          /\ formData' = formData
          /\ alerts' = alerts
      ]_vars

\* the refresh of the submit has failed while the initial one is in flight:
\* the result is still shown and the form is still reset
C12_Witness ==
    /\ completed = <<2>> /\ lastOutcome \in FailureOutcomes
    /\ createdUrl = CreationResult /\ showModal
    /\ formData = DefaultForm /\ alerts = 0

\* handleSubmit is called in this step
SubmitCalled == submits' = submits + 1

\* C13: handleSubmit without a persisted token issues no request, navigates
\* to the entry point, raises no alert, changes neither the form, the
\* result, the modal nor the collection, and ends with loading false.
C13_SubmitWithoutToken ==
    [][(SubmitCalled /\ (storage.urltoken = NULL \/ storage.urltoken = "")) =>
          /\ requests' = requests /\ fetches' = fetches /\ submit' = Idle
          /\ location' = "/"
          /\ alerts' = alerts
          /\ UNCHANGED <<formData, createdUrl, showModal, urls>>
          /\ ~loading'
      ]_vars

\* the form was submitted after logout: only the initial GET was issued
C13_Witness ==
    /\ submits = 1 /\ storage.urltoken = NULL /\ gate = "authenticated"
    /\ Len(requests) = 1 /\ requests[1].method = "GET"
    /\ location = "/" /\ ~loading /\ formData.originalUrl # ""

\* the create request is issued in this step
PostIssued == submit.pc = "idle" /\ submit'.pc = "fetch"

\* a name that is empty or holds only spaces
Blank(name) == \A i \in DOMAIN name : name[i] = " "

\* C14: the payload of the create request has a customName field exactly
\* when the custom name of the form is not blank.
C14_BlankNameOmitted ==
    [][PostIssued =>
          ("customName" \in DOMAIN submit'.body <=> ~Blank(formData.customName))
      ]_vars

\* a create request is in flight for a form whose custom name is one space
C14_Witness ==
    /\ submit.pc = "fetch" /\ formData.customName = <<" ">>
    /\ "customName" \notin DOMAIN submit.body

\* C15: a customName placed in the payload is the trimmed value of the form.
C15_PayloadNameTrimmed ==
    [][(PostIssued /\ "customName" \in DOMAIN submit'.body) =>
          submit'.body.customName = Trim(formData.customName)
      ]_vars

\* C16: loading is true exactly while a handleSubmit call is suspended at
\* an await, and so false after every exit.
C16_LoadingWhileSubmitting == loading <=> submit.pc # "idle"

\* the create request has been answered and its body is being read
C16_Witness == loading /\ submit.pc = "json" /\ submits = 1

\* C17: only handleLogout changes localStorage: it removes the token, the
\* identity label and the authentication flag together, navigates to the
\* entry point and issues no request.
C17_OnlyLogoutClearsSession ==
    [][storage' # storage =>
          /\ storage' = [urltoken |-> NULL, userEmail |-> NULL, isAuthenticated |-> NULL]
          /\ location' = "/"
          /\ requests' = requests /\ fetches' = fetches /\ submit' = submit
      ]_vars

\* logout while the create request is in flight
C17_Witness ==
    /\ gate = "authenticated" /\ storage.urltoken = NULL
    /\ storage.userEmail = NULL /\ storage.isAuthenticated = NULL
    /\ location = "/" /\ submit.pc = "fetch" /\ userEmail = "u@x"

\* classify as the specification words it: the label and the urgency tier
ReferenceClassify(expiry, now) ==
    IF now > expiry
    THEN [label |-> "Expired", tier |-> "expired"]
    ELSE LET daysLeft == CHOOSE n \in 0..(MaxDays + 1) :
                            /\ n * DayMs >= expiry - now
                            /\ \A m \in 0..(MaxDays + 1) : m * DayMs >= expiry - now => n <= m
         IN  [label |-> IF daysLeft = 1 THEN "1 day left"
                        ELSE ToString(daysLeft) \o " days left",
              tier |-> IF daysLeft <= 2 THEN "urgent" ELSE "normal"]

\* the urgency tier a colour class stands for
TierOfColor(color) ==
    CASE color = "text-red-500" -> "expired"
      [] color = "text-yellow-500" -> "urgent"
      [] color = "text-green-500" -> "normal"

\* C18: getValidityStatus agrees with the reference classify on the label
\* and the tier, for every expiry and current time.
C18_ValidityMatchesClassify ==
    rendered.called =>
        LET ref == ReferenceClassify(rendered.expiry, rendered.now)
        IN  /\ rendered.result.status = ref.label
            /\ TierOfColor(rendered.result.color) = ref.tier

\* evaluated at the very instant of expiry: zero days left, not expired
C18_Witness ==
    /\ rendered.called /\ rendered.now = rendered.expiry /\ rendered.now = 2 * DayMs
    /\ rendered.result = [status |-> "0 days left", color |-> "text-yellow-500"]

-----------------------------------------------------------------------------
(* The dashboard in front of a remote side that answers as documented *)

\* the members of a sequence, as a set
Range(seq) == {seq[i] : i \in 1..Len(seq)}

\* C19: when a call of fetchUserUrls completes after another completed call,
\* both having succeeded and both answered from the same collection on the
\* remote side, the link collection after it is set-equal to the collection
\* before it, in whichever shape and order each answer came.
C19_RefreshIdempotent ==
    [][(RefreshCompletes /\ lastOutcome = "stored" /\ lastServed' = lastServed)
          => Range(urls') = Range(urls)]_vars

\* the first refresh, answered after the creation, completes after the
\* submit-triggered one, with a keyed mapping as its body
C19_Witness ==
    /\ completed = <<2, 1>> /\ lastOutcome = "stored"
    /\ server = InitialLinks + 1 /\ lastServed = server
    /\ lastData.t = "object" /\ ~HasProp(lastData, "urls")
    /\ Range(urls) = Range(ServerLinks(server))

\* C20: after the one submission has succeeded and every request has
\* completed, each refresh having succeeded, the displayed link collection
\* equals the collection of the remote side, which includes the created link.
C20_ListShowsCreatedLink ==
    (/\ submits = 1 /\ submit = Idle /\ fetches = {}
     /\ Len(completed) = 2 /\ server = InitialLinks + 1)
        => Range(urls) = Range(ServerLinks(server))

====
